---------------------------- MODULE Spec2Model ----------------------------
(***************************************************************************)
(* Model of .github/scripts/analyze_and_fix_errors.py: the build-error     *)
(* classifier (remote analysis with a pattern fallback) and the fix        *)
(* pipeline of BuildErrorHandler.                                          *)
(*                                                                         *)
(* Text is modelled as TLA+ strings, read character by character with      *)
(* SubSeq; the working directory is one record, fs.                        *)
(***************************************************************************)
EXTENDS Integers, Sequences, FiniteSets, TLC

VARIABLES
    project_type,    \* self.project_type
    openai_client,   \* self.openai_client is set
    fs,              \* the working directory
    pc,              \* position of the run
    ret,             \* what analyze_error returned: error_type, fixes
    loc,             \* locals of _apply_fixes
    fixed,           \* what fix_errors returned
    arg,             \* the narrative handed to _parse_ai_fixes
    out,             \* what _parse_ai_fixes returned
    hist             \* history of the run (observations only)

vars == <<project_type, openai_client, fs, pc, ret, loc, fixed, arg, out, hist>>

-----------------------------------------------------------------------------
(* Bounds *)

MaxLen == 5          \* longest file content of SpecWs
MaxSegs == 4         \* most segments of a narrative of SpecParse
MaxParts == 2        \* most fragments of a transcript of SpecPattern
MaxCalls == 3        \* most repeated applications in SpecWs and SpecImports

-----------------------------------------------------------------------------
(* Python's str operations, on the characters the model uses *)

Ch(s, i) == SubSeq(s, i, i)

\* F(x), with x evaluated once
Bind(x, F(_)) == CHOOSE y \in {F(v) : v \in {x}} : TRUE

Whitespace == {" ", "\t", "\n"}

Digits == {"0", "1", "2", "3", "4", "5", "6", "7", "8", "9"}

StartsWithAt(s, i, p) == i >= 1 /\ i + Len(p) - 1 <= Len(s) /\ SubSeq(s, i, i + Len(p) - 1) = p

startswith(s, p) == StartsWithAt(s, 1, p)

endswith(s, p) == Len(p) <= Len(s) /\ SubSeq(s, Len(s) - Len(p) + 1, Len(s)) = p

\* s[i:], 1-based
From(s, i) == SubSeq(s, i, Len(s))

\* str.find from position i: the first index >= i where p starts, 0 if none
RECURSIVE FindFrom(_, _, _)
FindFrom(s, p, i) ==
    IF i + Len(p) - 1 > Len(s) THEN 0
    ELSE IF StartsWithAt(s, i, p) THEN i
    ELSE FindFrom(s, p, i + 1)

\* p in s
Contains(s, p) == FindFrom(s, p, 1) > 0

RECURSIVE replace(_, _, _)
replace(s, old, new) ==
    IF s = "" THEN ""
    ELSE IF startswith(s, old) THEN new \o replace(From(s, Len(old) + 1), old, new)
    ELSE Ch(s, 1) \o replace(From(s, 2), old, new)

RECURSIVE rstrip(_)
rstrip(s) ==
    IF s # "" /\ Ch(s, Len(s)) \in Whitespace THEN rstrip(SubSeq(s, 1, Len(s) - 1)) ELSE s

RECURSIVE lstrip(_)
lstrip(s) ==
    IF s # "" /\ Ch(s, 1) \in Whitespace THEN lstrip(From(s, 2)) ELSE s

strip(s) == lstrip(rstrip(s))

\* str.splitlines(): the lines without their terminators
RECURSIVE splitlines(_)
splitlines(s) ==
    IF s = "" THEN <<>>
    ELSE LET n == FindFrom(s, "\n", 1)
         IN  IF n = 0 THEN <<s>>
             ELSE <<SubSeq(s, 1, n - 1)>> \o splitlines(From(s, n + 1))

\* file.readlines(): the lines with their terminators
RECURSIVE readlines(_)
readlines(s) ==
    IF s = "" THEN <<>>
    ELSE LET n == FindFrom(s, "\n", 1)
         IN  IF n = 0 THEN <<s>>
             ELSE <<SubSeq(s, 1, n)>> \o readlines(From(s, n + 1))

\* sep.join(parts)
RECURSIVE join(_, _)
join(sep, parts) ==
    IF parts = <<>> THEN ""
    ELSE IF Len(parts) = 1 THEN parts[1]
    ELSE parts[1] \o sep \o join(sep, Tail(parts))

\* file.writelines(lines)
writelines(lines) == join("", lines)

\* the strings over an alphabet, up to a length
RECURSIVE Strings(_, _)
Strings(alphabet, n) ==
    IF n = 0 THEN {""}
    ELSE LET shorter == Strings(alphabet, n - 1)
         IN  shorter \cup {s \o c : s \in shorter, c \in alphabet}

-----------------------------------------------------------------------------
(* The regular expressions of _parse_ai_fixes, as re.finditer runs them *)

\* the first index >= i that holds no whitespace, Len(s) + 1 if none: a greedy \s*
RECURSIVE SkipSpace(_, _)
SkipSpace(s, i) ==
    IF i <= Len(s) /\ Ch(s, i) \in Whitespace THEN SkipSpace(s, i + 1) ELSE i

\* the index of the first "\n" at or after i, Len(s) + 1 if none: a greedy [^\n]* or .*
LineEnd(s, i) ==
    LET n == FindFrom(s, "\n", i) IN IF n = 0 THEN Len(s) + 1 ELSE n

\* the first index >= i that holds no digit: a greedy \d*
RECURSIVE SkipDigits(_, _)
SkipDigits(s, i) ==
    IF i <= Len(s) /\ Ch(s, i) \in Digits THEN SkipDigits(s, i + 1) ELSE i

\* the last index in k..Len(s) that holds no "\n", 0 if none: where \s* gives
\* characters back so that [^\n]+ can match
RECURSIVE LastNonNewline(_, _, _)
LastNonNewline(s, k, j) ==
    IF j < k THEN 0
    ELSE IF Ch(s, j) # "\n" THEN j
    ELSE LastNonNewline(s, k, j - 1)

\* \s*([^\n]+) tried at k: where the group starts, 0 if it cannot match
ValueStart(s, k) ==
    LET w == SkipSpace(s, k)
    IN  IF w <= Len(s) THEN w ELSE LastNonNewline(s, k, Len(s))

\* (?!\s*(?:FILE|LINE)) tried at p
NotBeforeTag(s, p) ==
    LET w == SkipSpace(s, p)
    IN  ~ (StartsWithAt(s, w, "FILE") \/ StartsWithAt(s, w, "LINE"))

\* (?:\n(?!\s*(?:FILE|LINE)).*)* tried at e: where the match ends (exclusive)
RECURSIVE FixBodyEnd(_, _)
FixBodyEnd(s, e) ==
    IF e <= Len(s) /\ Ch(s, e) = "\n" /\ NotBeforeTag(s, e + 1)
    THEN FixBodyEnd(s, LineEnd(s, e + 1))
    ELSE e

NoMatch == [ok |-> FALSE, group |-> "", end |-> 0]

\* file_pattern = r'FILE:\s*([^\n]+)' tried at i
file_pattern(s, i) ==
    IF ~ StartsWithAt(s, i, "FILE:") THEN NoMatch
    ELSE LET g == ValueStart(s, i + 5)
         IN  IF g = 0 THEN NoMatch
             ELSE [ok |-> TRUE, group |-> SubSeq(s, g, LineEnd(s, g) - 1), end |-> LineEnd(s, g)]

\* line_pattern = r'LINE:\s*(\d+)' tried at i
line_pattern(s, i) ==
    IF ~ StartsWithAt(s, i, "LINE:") THEN NoMatch
    ELSE LET g == SkipSpace(s, i + 5)
             e == SkipDigits(s, g)
         IN  IF e = g THEN NoMatch
             ELSE [ok |-> TRUE, group |-> SubSeq(s, g, e - 1), end |-> e]

\* fix_pattern = r'FIX:\s*([^\n]+(?:\n(?!\s*(?:FILE|LINE)).*)*)' tried at i
fix_pattern(s, i) ==
    IF ~ StartsWithAt(s, i, "FIX:") THEN NoMatch
    ELSE LET g == ValueStart(s, i + 4)
         IN  IF g = 0 THEN NoMatch
             ELSE LET e == FixBodyEnd(s, LineEnd(s, g))
                  IN  [ok |-> TRUE, group |-> SubSeq(s, g, e - 1), end |-> e]

\* [m.group(1).strip() for m in re.finditer(pattern, s)], scanning from i
RECURSIVE FileMatches(_, _)
FileMatches(s, i) ==
    IF i > Len(s) THEN <<>>
    ELSE LET m == file_pattern(s, i)
         IN  IF m.ok THEN <<strip(m.group)>> \o FileMatches(s, m.end)
             ELSE FileMatches(s, i + 1)

RECURSIVE LineMatches(_, _)
LineMatches(s, i) ==
    IF i > Len(s) THEN <<>>
    ELSE LET m == line_pattern(s, i)
         IN  IF m.ok THEN <<strip(m.group)>> \o LineMatches(s, m.end)
             ELSE LineMatches(s, i + 1)

RECURSIVE FixMatches(_, _)
FixMatches(s, i) ==
    IF i > Len(s) THEN <<>>
    ELSE LET m == fix_pattern(s, i)
         IN  IF m.ok THEN <<strip(m.group)>> \o FixMatches(s, m.end)
             ELSE FixMatches(s, i + 1)

DigitValue(c) ==
    CASE c = "0" -> 0 [] c = "1" -> 1 [] c = "2" -> 2 [] c = "3" -> 3 [] c = "4" -> 4
      [] c = "5" -> 5 [] c = "6" -> 6 [] c = "7" -> 7 [] c = "8" -> 8 [] c = "9" -> 9

\* int(digits)
RECURSIVE int(_)
int(d) ==
    IF d = "" THEN 0
    ELSE 10 * int(SubSeq(d, 1, Len(d) - 1)) + DigitValue(Ch(d, Len(d)))

files_of(analysis_text) == FileMatches(analysis_text, 1)

lines_of(analysis_text) ==
    LET ls == LineMatches(analysis_text, 1) IN [k \in 1..Len(ls) |-> int(ls[k])]

fixes_text_of(analysis_text) == FixMatches(analysis_text, 1)

\* zip(files, lines, fixes_text) as the list of dicts
ZipFixes(files, lines, fixes_text) ==
    LET n == IF Len(files) <= Len(lines)
             THEN (IF Len(files) <= Len(fixes_text) THEN Len(files) ELSE Len(fixes_text))
             ELSE (IF Len(lines) <= Len(fixes_text) THEN Len(lines) ELSE Len(fixes_text))
    IN  [k \in 1..n |-> [file |-> files[k], line |-> lines[k], fix |-> fixes_text[k]]]

\* mutant: the length check of _parse_ai_fixes dropped, zip pairs what there is
parse_ai_fixes_unchecked(analysis_text) ==
    ZipFixes(files_of(analysis_text), lines_of(analysis_text), fixes_text_of(analysis_text))

parse_ai_fixes(analysis_text) ==
    LET files == files_of(analysis_text)
        lines == lines_of(analysis_text)
        fixes_text == fixes_text_of(analysis_text)
    IN  IF Len(files) = Len(lines) /\ Len(lines) = Len(fixes_text)
        THEN ZipFixes(files, lines, fixes_text)
        ELSE <<>>

-----------------------------------------------------------------------------
(* _fix_whitespace on a file's content *)

\* [line.rstrip() for line in lines]
rstrip_each(lines) == [k \in 1..Len(lines) |-> rstrip(lines[k])]

normalize(content) ==
    LET c1 == replace(content, "\t", "    ")
        c2 == join("\n", rstrip_each(splitlines(c1)))
    IN  IF ~ endswith(c2, "\n") THEN c2 \o "\n" ELSE c2

-----------------------------------------------------------------------------
(* The working directory *)

\* a file that does not exist
NoFile == [exists |-> FALSE, readable |-> FALSE, writable |-> TRUE, text |-> ""]

\* a file that exists, with its permissions
File(text, readable, writable) ==
    [exists |-> TRUE, readable |-> readable, writable |-> writable, text |-> text]

\* open(path, 'w') followed by file.write(text)
Written(f, text) == [f EXCEPT !.exists = TRUE, !.readable = TRUE, !.text = text]

\* the source tree's paths, in the order Path('.').glob yields them
TreePaths == <<"a.py", "b.py", "tests/__init__.py", "a.js", "node_modules/m.js">>

PathSet == {TreePaths[k] : k \in 1..Len(TreePaths)}

\* os.path.exists(file_path) for a path of a suggestion or of the tree
path_exists(d, file_path) == file_path \in PathSet /\ d.tree[file_path].exists

\* a JSON object: a function from its keys
EmptyObject == [k \in {} |-> ""]

HasKey(obj, k) == k \in DOMAIN obj

\* dict.setdefault(k, {})
setdefault(obj, k) == IF HasKey(obj, k) THEN obj ELSE (k :> EmptyObject) @@ obj

\* obj[k][name] = value
SetIn(obj, k, name, value) == (k :> ((name :> value) @@ obj[k])) @@ obj

-----------------------------------------------------------------------------
(* analyze_error: the remote path, the pattern path *)

lower_char(c) ==
    CASE c = "A" -> "a" [] c = "B" -> "b" [] c = "C" -> "c" [] c = "D" -> "d"
      [] c = "E" -> "e" [] c = "F" -> "f" [] c = "G" -> "g" [] c = "H" -> "h"
      [] c = "I" -> "i" [] c = "J" -> "j" [] c = "K" -> "k" [] c = "L" -> "l"
      [] c = "M" -> "m" [] c = "N" -> "n" [] c = "O" -> "o" [] c = "P" -> "p"
      [] c = "Q" -> "q" [] c = "R" -> "r" [] c = "S" -> "s" [] c = "T" -> "t"
      [] c = "U" -> "u" [] c = "V" -> "v" [] c = "W" -> "w" [] c = "X" -> "x"
      [] c = "Y" -> "y" [] c = "Z" -> "z" [] OTHER -> c

RECURSIVE lower(_)
lower(s) == IF s = "" THEN "" ELSE lower_char(Ch(s, 1)) \o lower(From(s, 2))

\* re.search(p, s) for a pattern without metacharacters
search(p, s) == Contains(s, p)

\* mutant: the patterns dict without ModuleNotFoundError
patterns_without_module_not_found ==
    << <<"indentation contains tabs", "trailing whitespace">>,
       <<"cannot find module">>,
       <<"SyntaxError", "Missing semicolon">>,
       <<"ESLint", "pylint">> >>

\* the patterns dict of _analyze_traditional, in its order
patterns ==
    << <<"indentation contains tabs", "trailing whitespace">>,
       <<"cannot find module", "ModuleNotFoundError">>,
       <<"SyntaxError", "Missing semicolon">>,
       <<"ESLint", "pylint">> >>

\* any(re.search(p, build_log, re.IGNORECASE) for p in pats) for some category
table_match(build_log) ==
    LET text == lower(build_log)
    IN  \E c \in 1..Len(patterns) : \E k \in 1..Len(patterns[c]) :
            search(lower(patterns[c][k]), text)

\* mutant: the project-specific checks applied whatever the project type is
pattern_kind_for_any_project(build_log, ptype) ==
    LET error_type == IF table_match(build_log) THEN "minor" ELSE "major"
    IN  IF search("npm ERR! missing script", build_log) THEN "minor"
        ELSE IF search("IndentationError", build_log) THEN "minor"
        ELSE error_type

\* the error_type _analyze_traditional computes
pattern_kind(build_log, ptype) ==
    LET error_type == IF table_match(build_log) THEN "minor" ELSE "major"
    IN  IF ptype = "node" /\ search("npm ERR! missing script", build_log) THEN "minor"
        ELSE IF ptype = "python" /\ search("IndentationError", build_log) THEN "minor"
        ELSE error_type

\* what the remote service does when called
Raises == [kind |-> "raise", content |-> ""]

Malformed == [kind |-> "malformed", content |-> ""]

Answer(text) == [kind |-> "answer", content |-> text]

\* the error_type of the remote path
ai_kind(ai_analysis) == IF Contains(ai_analysis, "MINOR") THEN "minor" ELSE "major"

\* the dict _analyze_with_ai dumps to ai_fixes.json; the file is modelled by the
\* value json.load reads back from it
ai_data(ai_analysis) ==
    [error_type |-> ai_kind(ai_analysis),
     analysis |-> ai_analysis,
     fixes |-> IF ai_kind(ai_analysis) = "minor" THEN parse_ai_fixes(ai_analysis) ELSE <<>>]

\* the except branch of _analyze_with_ai: return None, []
AiFailed(d, called) == [error_type |-> "none", fixes |-> <<>>, called |-> called, fs |-> d]

\* mutant: _analyze_with_ai without its try/except, a failure reaches the caller
analyze_with_ai_uncaught(d, resp) ==
    IF ~ d.build_log.readable
    THEN [error_type |-> "raised", fixes |-> <<>>, called |-> FALSE, fs |-> d]
    ELSE IF resp.kind # "answer" \/ ~ d.ai_fixes.writable
    THEN [error_type |-> "raised", fixes |-> <<>>, called |-> TRUE, fs |-> d]
    ELSE Bind(ai_data(resp.content), LAMBDA data :
             IF ~ d.error_type_txt.writable
             THEN [error_type |-> "raised", fixes |-> <<>>, called |-> TRUE,
                   fs |-> [d EXCEPT !.ai_fixes = [exists |-> TRUE, writable |-> TRUE, data |-> data]]]
             ELSE [error_type |-> data.error_type, fixes |-> data.fixes, called |-> TRUE,
                   fs |-> [d EXCEPT !.ai_fixes = [exists |-> TRUE, writable |-> TRUE, data |-> data],
                                    !.error_type_txt = Written(@, data.error_type)]])

\* _analyze_with_ai; error_type "none" is Python's None
analyze_with_ai(d, resp) ==
    IF ~ d.build_log.readable THEN AiFailed(d, FALSE)
    ELSE IF resp.kind # "answer" THEN AiFailed(d, TRUE)
    ELSE IF ~ d.ai_fixes.writable THEN AiFailed(d, TRUE)
    ELSE Bind(ai_data(resp.content), LAMBDA data :
             IF ~ d.error_type_txt.writable
             THEN AiFailed([d EXCEPT !.ai_fixes = [exists |-> TRUE, writable |-> TRUE, data |-> data]],
                           TRUE)
             ELSE [error_type |-> data.error_type, fixes |-> data.fixes, called |-> TRUE,
                   fs |-> [d EXCEPT !.ai_fixes = [exists |-> TRUE, writable |-> TRUE, data |-> data],
                                    !.error_type_txt = Written(@, data.error_type)]])

\* _analyze_traditional; error_type "raised" is an exception leaving it
analyze_traditional(d, ptype) ==
    IF ~ d.build_log.readable \/ ~ d.error_type_txt.writable
    THEN [error_type |-> "raised", fixes |-> <<>>, fs |-> d]
    ELSE [error_type |-> pattern_kind(d.build_log.text, ptype), fixes |-> <<>>,
          fs |-> [d EXCEPT !.error_type_txt = Written(@, pattern_kind(d.build_log.text, ptype))]]

\* the remote step of analyze_error: skipped without a client
remote_step(d, client, resp) ==
    IF client THEN analyze_with_ai(d, resp) ELSE AiFailed(d, FALSE)

\* the end of analyze_error: the remote result if there is one, else the pattern path
remote_or_pattern(ai, client, ptype) ==
    IF ai.error_type # "none"
    THEN [error_type |-> ai.error_type, fixes |-> ai.fixes, fs |-> ai.fs,
          remote |-> ai.called, failed |-> FALSE, pattern |-> FALSE]
    ELSE Bind(analyze_traditional(ai.fs, ptype), LAMBDA t :
             [error_type |-> t.error_type, fixes |-> t.fixes, fs |-> t.fs,
              remote |-> ai.called, failed |-> client, pattern |-> TRUE])

\* mutant: analyze_error without its check that the transcript exists
analyze_error_unguarded(d, client, ptype, resp) ==
    Bind(remote_step(d, client, resp), LAMBDA ai : remote_or_pattern(ai, client, ptype))

\* analyze_error: what it returns (error_type "raised": an exception leaves it), the
\* directory it leaves, whether the remote service was called, whether the remote
\* step failed, and whether the pattern path ran
analyze_error(d, client, ptype, resp) ==
    IF ~ d.build_log.exists
    THEN [error_type |-> "major", fixes |-> <<>>, fs |-> d,
          remote |-> FALSE, failed |-> FALSE, pattern |-> FALSE]
    ELSE Bind(remote_step(d, client, resp), LAMBDA ai : remote_or_pattern(ai, client, ptype))

-----------------------------------------------------------------------------
(* _apply_fixes: targeted fixes, normalization, imports, scaffolding *)

\* mutant: the range check of _apply_single_fix dropped, a line past the end is appended
apply_single_fix_unchecked(d, file_path, line_num, fix_content) ==
    IF file_path = "" \/ ~ path_exists(d, file_path) \/ line_num = 0 \/ fix_content = ""
    THEN [ok |-> FALSE, raised |-> FALSE, caught |-> FALSE, fs |-> d]
    ELSE LET f == d.tree[file_path]
             lines == readlines(f.text)
             fixed_lines == IF line_num <= Len(lines)
                            THEN [lines EXCEPT ![line_num] = fix_content \o "\n"]
                            ELSE Append(lines, fix_content \o "\n")
         IN  IF ~ f.readable \/ ~ f.writable
             THEN [ok |-> FALSE, raised |-> FALSE, caught |-> TRUE, fs |-> d]
             ELSE [ok |-> TRUE, raised |-> FALSE, caught |-> FALSE,
                   fs |-> [d EXCEPT !.tree[file_path] = Written(@, writelines(fixed_lines))]]

\* _apply_single_fix: ok is its return value, caught tells that its except ran
apply_single_fix(d, file_path, line_num, fix_content) ==
    IF file_path = "" \/ ~ path_exists(d, file_path) \/ line_num = 0 \/ fix_content = ""
    THEN [ok |-> FALSE, raised |-> FALSE, caught |-> FALSE, fs |-> d]
    ELSE LET f == d.tree[file_path]
             lines == readlines(f.text)
         IN  IF ~ f.readable
             THEN [ok |-> FALSE, raised |-> FALSE, caught |-> TRUE, fs |-> d]
             ELSE IF 1 <= line_num /\ line_num <= Len(lines)
             THEN IF ~ f.writable
                  THEN [ok |-> FALSE, raised |-> FALSE, caught |-> TRUE, fs |-> d]
                  ELSE [ok |-> TRUE, raised |-> FALSE, caught |-> FALSE,
                        fs |-> [d EXCEPT !.tree[file_path] =
                                   Written(@, writelines([lines EXCEPT ![line_num] = fix_content \o "\n"]))]]
             ELSE [ok |-> FALSE, raised |-> FALSE, caught |-> FALSE, fs |-> d]

\* the extensions dict of _get_project_files
extensions(ptype) ==
    CASE ptype = "nodejs" -> <<"js", "jsx", "ts", "tsx">>
      [] ptype = "python" -> <<"py">>
      [] ptype = "java" -> <<"java">>
      [] ptype = "go" -> <<"go">>
      [] ptype = "rust" -> <<"rs">>
      [] OTHER -> <<"js", "py", "java", "go", "rs", "ts", "jsx", "tsx">>

\* Path('.').glob('**/*.ext'), from the k-th path of the tree on
RECURSIVE glob(_, _, _)
glob(d, ext, k) ==
    IF k > Len(TreePaths) THEN <<>>
    ELSE (IF d.tree[TreePaths[k]].exists /\ endswith(TreePaths[k], "." \o ext)
          THEN <<TreePaths[k]>> ELSE <<>>) \o glob(d, ext, k + 1)

RECURSIVE glob_all(_, _)
glob_all(d, exts) ==
    IF exts = <<>> THEN <<>> ELSE glob(d, Head(exts), 1) \o glob_all(d, Tail(exts))

\* _get_project_files
get_project_files(d, ptype) ==
    SelectSeq(glob_all(d, extensions(ptype)), LAMBDA f : ~ Contains(f, "node_modules"))

\* mutant: _fix_whitespace without its try/except
fix_whitespace_uncaught(d, file_path) ==
    LET f == d.tree[file_path]
    IN  IF ~ f.readable \/ ~ f.writable
        THEN [raised |-> TRUE, caught |-> FALSE, fs |-> d]
        ELSE [raised |-> FALSE, caught |-> FALSE,
              fs |-> [d EXCEPT !.tree[file_path] = Written(@, normalize(f.text))]]

\* _fix_whitespace on a file of the tree; caught tells that its except ran
fix_whitespace(d, file_path) ==
    LET f == d.tree[file_path]
    IN  IF ~ f.readable \/ ~ f.writable
        THEN [raised |-> FALSE, caught |-> TRUE, fs |-> d]
        ELSE [raised |-> FALSE, caught |-> FALSE,
              fs |-> [d EXCEPT !.tree[file_path] = Written(@, normalize(f.text))]]

Quotes == {"'", "\""}

\* the first index >= i that holds a quote, 0 if none
RECURSIVE NextQuote(_, _)
NextQuote(s, i) ==
    IF i > Len(s) THEN 0 ELSE IF Ch(s, i) \in Quotes THEN i ELSE NextQuote(s, i + 1)

\* re.findall(prefix + r'[\'"]([^\'"]+)[\'"]', s), the prefix matched on t (s, or
\* s in lower case under re.IGNORECASE), scanning from i
RECURSIVE findall_quoted(_, _, _, _)
findall_quoted(s, t, prefix, i) ==
    IF i > Len(s) THEN <<>>
    ELSE LET q == i + Len(prefix)
             r == NextQuote(s, q + 1)
         IN  IF StartsWithAt(t, i, prefix) /\ q <= Len(s) /\ Ch(s, q) \in Quotes /\ r > q + 1
             THEN <<SubSeq(s, q + 1, r - 1)>> \o findall_quoted(s, t, prefix, r + 1)
             ELSE findall_quoted(s, t, prefix, i + 1)

\* missing of _fix_node_imports
node_missing(build_log) ==
    findall_quoted(build_log, lower(build_log), "cannot find module ", 1)

\* missing of _fix_python_imports
python_missing(build_log) ==
    findall_quoted(build_log, build_log, "No module named ", 1)
    \o findall_quoted(build_log, build_log, "ModuleNotFoundError: No module named ", 1)

\* m.split('.')[0]
top_level(m) ==
    LET n == FindFrom(m, ".", 1) IN IF n = 0 THEN m ELSE SubSeq(m, 1, n - 1)

\* {m.split('.')[0] for m in missing}
top_level_set(missing) == {top_level(missing[k]) : k \in 1..Len(missing)}

\* the orders in which a set may be iterated
Orders(S) ==
    {o \in [1..Cardinality(S) -> S] : \A a, b \in 1..Cardinality(S) : o[a] = o[b] => a = b}

\* what subprocess.run of the package manager does: it returns (check=False ignores
\* the exit status) or raises because the command is not there.  What the command
\* itself writes is outside the repository and is not modelled.
PkgOutcomes == {"ok", "failed", "unavailable"}

\* the for module in missing loop of _fix_node_imports over data['dependencies']
RECURSIVE add_dependencies(_, _)
add_dependencies(data, missing) ==
    IF missing = <<>> THEN data
    ELSE add_dependencies(
             IF HasKey(data["dependencies"], Head(missing)) THEN data
             ELSE SetIn(data, "dependencies", Head(missing), "*"),
             Tail(missing))

\* _fix_node_imports
fix_node_imports(d, build_log, pkg) ==
    LET missing == node_missing(build_log)
    IN  IF missing = <<>> THEN [raised |-> FALSE, fs |-> d]
        ELSE IF pkg = "unavailable" THEN [raised |-> TRUE, fs |-> d]
        ELSE IF ~ d.package_json.exists THEN [raised |-> FALSE, fs |-> d]
        ELSE [raised |-> FALSE,
              fs |-> [d EXCEPT !.package_json.data =
                         add_dependencies(setdefault(@, "dependencies"), missing)]]

\* mutant: the covering test looks for a pinned entry only
covered_pinned_only(reqs, module) ==
    \E k \in 1..Len(reqs) : startswith(reqs[k], module \o "==")

\* the covering test of _fix_python_imports
covered(reqs, module) ==
    \E k \in 1..Len(reqs) : startswith(reqs[k], module \o "==") \/ reqs[k] = module

\* the for module in {...} loop of _fix_python_imports over reqs, in the order given
RECURSIVE add_requirements(_, _)
add_requirements(reqs, order) ==
    IF order = <<>> THEN reqs
    ELSE add_requirements(
             IF covered(reqs, Head(order)) THEN reqs ELSE Append(reqs, Head(order)),
             Tail(order))

\* _fix_python_imports; order is the order in which the set of modules is iterated
fix_python_imports(d, build_log, pkg, order) ==
    LET missing == python_missing(build_log)
    IN  IF missing = <<>> THEN [raised |-> FALSE, fs |-> d]
        ELSE IF pkg = "unavailable" THEN [raised |-> TRUE, fs |-> d]
        ELSE IF ~ d.requirements.exists THEN [raised |-> FALSE, fs |-> d]
        ELSE [raised |-> FALSE,
              fs |-> [d EXCEPT !.requirements.text =
                         join("\n", add_requirements(splitlines(@), order)) \o "\n"]]

\* the orders _fix_python_imports may iterate its set of modules in
module_orders(d) ==
    IF d.build_log.exists THEN Orders(top_level_set(python_missing(d.build_log.text)))
    ELSE {<<>>}

\* _fix_imports
fix_imports(d, ptype, pkg, order) ==
    IF ~ d.build_log.exists THEN [raised |-> FALSE, fs |-> d]
    ELSE IF ~ d.build_log.readable THEN [raised |-> TRUE, fs |-> d]
    ELSE IF ptype = "nodejs" THEN fix_node_imports(d, d.build_log.text, pkg)
    ELSE IF ptype = "python" THEN fix_python_imports(d, d.build_log.text, pkg, order)
    ELSE [raised |-> FALSE, fs |-> d]

\* _ensure_build_script
ensure_build_script(d) ==
    LET data == setdefault(d.package_json.data, "scripts")
    IN  IF ~ HasKey(data["scripts"], "build")
        THEN [d EXCEPT !.package_json.data =
                 SetIn(data, "scripts", "build", "echo \"No build script specified\"")]
        ELSE d

\* step 3 of _apply_fixes, the project-specific fixes
project_specific_fixes(d, ptype) ==
    IF ptype = "node" /\ d.package_json.exists THEN ensure_build_script(d)
    ELSE IF ptype = "python" /\ ~ d.tests_dir
    THEN [d EXCEPT !.tests_dir = TRUE,
                   !.tree["tests/__init__.py"] = Written(@, "# Test initialization\n")]
    ELSE d

-----------------------------------------------------------------------------
(* The inputs of the model *)

\* build transcripts
Transcripts ==
    {"SyntaxError: invalid syntax",
     "Error: Cannot find module 'lodash'",
     "ModuleNotFoundError: No module named 'requests.api'",
     "IndentationError: unexpected indent",
     "npm ERR! missing script: build",
     "Segmentation fault"}

\* narratives of the remote service
Narratives ==
    {"MINOR\nFILE: a.py\nLINE: 2\nFIX: y = 2\n",
     "MINOR\nFILE: a.py\nLINE: 9\nFIX: z\nFILE: b.py\nLINE: 1\nFIX: w\n",
     "MINOR\nFILE: a.js\nLINE: 0\nFIX: let x;\nFILE: a.js\nLINE: 1\nFIX: p\n  q\n",
     "MINOR\nFILE: a.py\nLINE: 1\n",
     "minor: trailing whitespace",
     "MAJOR: incompatible type signature in foo.ts",
     "MAJOR\nFILE: a.py\nLINE: 1\nFIX: q\n",
     "MINOR\nFILE: a.py\nLINE: 1\nFIX: u\nFILE: a.py\nLINE: 1\nFIX: v\t= 1\n"}

Responses == {Raises, Malformed} \cup {Answer(n) : n \in Narratives}

NoRecord ==
    [exists |-> FALSE, writable |-> TRUE,
     data |-> [error_type |-> "", analysis |-> "", fixes |-> <<>>]]

\* ai_fixes.json as an earlier run's remote path wrote it for narrative n
RecordOf(n) ==
    [exists |-> TRUE, writable |-> TRUE,
     data |-> ai_data(n)]

StaleNarrative == "MINOR\nFILE: a.py\nLINE: 1\nFIX: stale\n"

\* the artifacts an earlier run may have left: none, or those of a MINOR answer
Leftovers ==
    {[ai_fixes |-> NoRecord, error_type_txt |-> NoFile],
     [ai_fixes |-> RecordOf(StaleNarrative), error_type_txt |-> File("minor", TRUE, TRUE)]}

EmptyTree == [p \in PathSet |-> NoFile]

\* source trees of a Python project
PythonTrees ==
    {[EmptyTree EXCEPT !["a.py"] = a, !["b.py"] = b, !["tests/__init__.py"] = t] :
        a \in {NoFile, File("x = 1\ny = 1\n", TRUE, TRUE), File("x\t= 1 \n\n\n", TRUE, TRUE),
               File("x = 1 \n", FALSE, TRUE), File("x = 1 \n", TRUE, FALSE)},
        b \in {NoFile, File("b = 1  ", TRUE, TRUE)},
        t \in {NoFile, File("", TRUE, TRUE)}}

\* source trees of a Node.js project
NodeTrees ==
    {[EmptyTree EXCEPT !["a.js"] = a, !["node_modules/m.js"] = File("m \n", TRUE, TRUE)] :
        a \in {NoFile, File("let a;\t\n", TRUE, TRUE), File("let a; \n", TRUE, FALSE)}}

NoManifest == [exists |-> FALSE, data |-> EmptyObject]

PackageJsons ==
    {NoManifest,
     [exists |-> TRUE, data |-> [name |-> "app"]],
     [exists |-> TRUE,
      data |-> [name |-> "app", dependencies |-> [lodash |-> "^4.17.21"],
                scripts |-> [build |-> "tsc"]]]}

NoRequirements == [exists |-> FALSE, text |-> ""]

Requirements ==
    {NoRequirements,
     [exists |-> TRUE, text |-> "flask\n"],
     [exists |-> TRUE, text |-> "requests==2.0\n"]}

\* the working directories of a project of each kind
PythonDirs(logs, leftovers) ==
    {[build_log |-> l, ai_fixes |-> o.ai_fixes, error_type_txt |-> o.error_type_txt,
      tree |-> t, package_json |-> NoManifest, requirements |-> r, tests_dir |-> td] :
        l \in logs, o \in leftovers, t \in PythonTrees, r \in Requirements,
        td \in BOOLEAN}

NodeDirs(logs, leftovers) ==
    {[build_log |-> l, ai_fixes |-> o.ai_fixes, error_type_txt |-> o.error_type_txt,
      tree |-> t, package_json |-> p, requirements |-> NoRequirements, tests_dir |-> FALSE] :
        l \in logs, o \in leftovers, t \in NodeTrees, p \in PackageJsons}

\* a directory is well formed when tests/__init__.py lies in a directory
WellFormed(d) == d.tree["tests/__init__.py"].exists => d.tests_dir

NoLocals == [fixes |-> <<>>, i |-> 1, files |-> <<>>, j |-> 1, applied_fixes |-> 0]

NoReturn == [error_type |-> "", fixes |-> <<>>]

NoHistory(d) ==
    [fs0 |-> d, remote_calls |-> 0, pattern_runs |-> 0, remote_failed |-> FALSE,
     cause |-> "", attempted |-> 0, skipped |-> 0, visited |-> 0, caught |-> 0,
     real_fixes |-> 0, scaffolded |-> FALSE, calls |-> 0, first |-> "", applied |-> <<>>]

-----------------------------------------------------------------------------
(* main: analyze_error, then fix_errors when the error is minor *)

\* handler.analyze_error() of main
Analyze ==
    /\ pc = "start"
    /\ \E resp \in Responses :
          \E r \in {analyze_error(fs, openai_client, project_type, resp)} :
              /\ fs' = r.fs
              /\ ret' = [error_type |-> r.error_type, fixes |-> r.fixes]
              /\ pc' = IF r.error_type = "raised" THEN "raised" ELSE "analyzed"
              /\ hist' = [hist EXCEPT
                    !.remote_calls = @ + (IF r.remote THEN 1 ELSE 0),
                    !.pattern_runs = @ + (IF r.pattern THEN 1 ELSE 0),
                    !.remote_failed = r.failed,
                    !.cause = IF r.error_type = "raised" THEN "analyze" ELSE @]
    /\ UNCHANGED <<project_type, openai_client, loc, fixed, arg, out>>

\* the else branch of main: the error is major, fix_errors is not called
ReportMajor ==
    /\ pc = "analyzed"
    /\ ret.error_type # "minor"
    /\ pc' = "done"
    /\ UNCHANGED <<project_type, openai_client, fs, ret, loc, fixed, arg, out, hist>>

\* mutant: remediation is entered whatever the kind is
LoadFixes_for_any_kind ==
    /\ pc = "analyzed"
    /\ loc' = [NoLocals EXCEPT
          !.fixes = IF fs.ai_fixes.exists THEN fs.ai_fixes.data.fixes ELSE <<>>]
    /\ pc' = "targeted"
    /\ UNCHANGED <<project_type, openai_client, fs, ret, fixed, arg, out, hist>>

\* fix_errors calls _apply_fixes, which loads the fixes of ai_fixes.json
LoadFixes ==
    /\ pc = "analyzed"
    /\ ret.error_type = "minor"
    /\ loc' = [NoLocals EXCEPT
          !.fixes = IF fs.ai_fixes.exists THEN fs.ai_fixes.data.fixes ELSE <<>>]
    /\ pc' = "targeted"
    /\ UNCHANGED <<project_type, openai_client, fs, ret, fixed, arg, out, hist>>

\* whether a suggestion names an existing file and a line of it
in_range(d, fix) ==
    /\ path_exists(d, fix.file)
    /\ 1 <= fix.line
    /\ fix.line <= Len(readlines(d.tree[fix.file].text))

\* one turn of the for fix in fixes loop
ApplySingleFix ==
    /\ pc = "targeted"
    /\ loc.i <= Len(loc.fixes)
    /\ \E fix \in {loc.fixes[loc.i]} :
       \E r \in {apply_single_fix(fs, fix.file, fix.line, fix.fix)} :
           /\ fs' = r.fs
           /\ pc' = IF r.raised THEN "raised" ELSE "targeted"
           /\ loc' = [loc EXCEPT !.i = @ + 1,
                                 !.applied_fixes = @ + (IF r.ok THEN 1 ELSE 0)]
           /\ hist' = [hist EXCEPT
                 !.attempted = @ + 1,
                 !.skipped = @ + (IF path_exists(fs, fix.file) /\ ~ in_range(fs, fix)
                                  THEN 1 ELSE 0),
                 !.caught = @ + (IF r.caught THEN 1 ELSE 0),
                 !.real_fixes = @ + (IF r.ok THEN 1 ELSE 0),
                 !.applied = IF r.ok THEN Append(@, fix) ELSE @,
                 !.cause = IF r.raised THEN "file" ELSE @]
    /\ UNCHANGED <<project_type, openai_client, ret, fixed, arg, out>>

\* after the loop: _extract_error_details reads the transcript, _get_project_files
\* lists the files
ListFiles ==
    /\ pc = "targeted"
    /\ loc.i > Len(loc.fixes)
    /\ IF fs.build_log.exists /\ ~ fs.build_log.readable
       THEN /\ pc' = "raised"
            /\ hist' = [hist EXCEPT !.cause = "details"]
            /\ loc' = loc
       ELSE /\ pc' = "files"
            /\ hist' = hist
            /\ loc' = [loc EXCEPT !.files = get_project_files(fs, project_type)]
    /\ UNCHANGED <<project_type, openai_client, fs, ret, fixed, arg, out>>

\* _fix_imports after _fix_whitespace, unless that raised
imports_after(w, ptype, pkg, order) ==
    IF w.raised THEN [raised |-> TRUE, fs |-> w.fs]
    ELSE fix_imports(w.fs, ptype, pkg, order)

\* one turn of the for file_path in files_to_check loop
FixFile ==
    /\ pc = "files"
    /\ loc.j <= Len(loc.files)
    /\ path_exists(fs, loc.files[loc.j])
    /\ \E pkg \in PkgOutcomes, order \in module_orders(fs) :
       \E w \in {fix_whitespace(fs, loc.files[loc.j])} :
       \E m \in {imports_after(w, project_type, pkg, order)} :
           /\ fs' = m.fs
           /\ pc' = IF m.raised THEN "raised" ELSE "files"
           /\ loc' = IF m.raised THEN loc
                     ELSE [loc EXCEPT !.j = @ + 1, !.applied_fixes = @ + 1]
           /\ hist' = [hist EXCEPT
                 !.visited = @ + (IF m.raised THEN 0 ELSE 1),
                 !.caught = @ + (IF w.caught THEN 1 ELSE 0),
                 !.real_fixes = @ + (IF w.fs.tree # fs.tree THEN 1 ELSE 0)
                                  + (IF m.fs.package_json # fs.package_json
                                        \/ m.fs.requirements # fs.requirements
                                     THEN 1 ELSE 0),
                 !.cause = IF w.raised THEN "file" ELSE IF m.raised THEN "imports" ELSE @]
    /\ UNCHANGED <<project_type, openai_client, ret, fixed, arg, out>>

\* after the loop: the project-specific fixes, and _apply_fixes returns
Scaffold ==
    /\ pc = "files"
    /\ loc.j > Len(loc.files)
    /\ fs' = project_specific_fixes(fs, project_type)
    /\ fixed' = (loc.applied_fixes > 0)
    /\ pc' = "done"
    /\ hist' = [hist EXCEPT !.scaffolded = TRUE,
                            !.real_fixes = @ + (IF fs' # fs THEN 1 ELSE 0)]
    /\ UNCHANGED <<project_type, openai_client, ret, loc, arg, out>>

Init ==
    /\ project_type \in {"python", "nodejs", "node"}
    /\ openai_client \in BOOLEAN
    /\ fs \in {d \in (IF project_type = "python"
                      THEN PythonDirs({NoFile} \cup {File(t, TRUE, TRUE) : t \in Transcripts}, Leftovers)
                      ELSE NodeDirs({NoFile} \cup {File(t, TRUE, TRUE) : t \in Transcripts}, Leftovers)) :
                  WellFormed(d)}
    /\ pc = "start"
    /\ ret = NoReturn
    /\ loc = NoLocals
    /\ fixed = FALSE
    /\ arg = ""
    /\ out = <<>>
    /\ hist = NoHistory(fs)

Next ==
    \/ Analyze
    \/ ReportMajor
    \/ LoadFixes
    \/ ApplySingleFix
    \/ ListFiles
    \/ FixFile
    \/ Scaffold

Spec == Init /\ [][Next]_vars

-----------------------------------------------------------------------------
(* Classification alone, over unreadable transcripts and unwritable artifacts *)

\* the artifacts of Leftovers, each writable or not
LeftoversWithPermissions ==
    {[ai_fixes |-> [o.ai_fixes EXCEPT !.writable = rw],
      error_type_txt |-> [o.error_type_txt EXCEPT !.writable = fw]] :
        o \in Leftovers, rw \in BOOLEAN, fw \in BOOLEAN}

\* the transcript: missing, or there and readable or not
LogsWithPermissions ==
    {NoFile} \cup {File(t, r, TRUE) : t \in Transcripts, r \in BOOLEAN}

InitClassify ==
    /\ project_type \in {"python", "nodejs", "node"}
    /\ openai_client \in BOOLEAN
    /\ fs \in {d \in (IF project_type = "python"
                      THEN PythonDirs(LogsWithPermissions, LeftoversWithPermissions)
                      ELSE NodeDirs(LogsWithPermissions, LeftoversWithPermissions)) :
                  /\ d.tree["a.py"].text \in {"", "x = 1\ny = 1\n"}
                  /\ d.tree["a.js"].text \in {"", "let a;\t\n"}
                  /\ ~ d.tree["b.py"].exists
                  /\ ~ d.tree["tests/__init__.py"].exists
                  /\ ~ d.tests_dir
                  /\ ~ d.requirements.exists
                  /\ ~ d.package_json.exists}
    /\ pc = "start"
    /\ ret = NoReturn
    /\ loc = NoLocals
    /\ fixed = FALSE
    /\ arg = ""
    /\ out = <<>>
    /\ hist = NoHistory(fs)

NextClassify == Analyze

SpecClassify == InitClassify /\ [][NextClassify]_vars

-----------------------------------------------------------------------------
(* _parse_ai_fixes alone, over narratives put together from segments *)

Segments ==
    {"FILE: a.py\n", "LINE: 2\n", "FIX: x = 1\n", "  y\n", "LINE: z\n", "FIX:\n", "MINOR FILE:",
     "FILE: b.py\nLINE: 1\nFIX: w\n"}

\* the concatenations of at most n segments
RECURSIVE Concats(_)
Concats(n) ==
    IF n = 0 THEN {""}
    ELSE LET shorter == Concats(n - 1)
         IN  shorter \cup {s \o g : s \in shorter, g \in Segments}

BaseDir ==
    [build_log |-> NoFile, ai_fixes |-> NoRecord, error_type_txt |-> NoFile,
     tree |-> EmptyTree, package_json |-> NoManifest, requirements |-> NoRequirements,
     tests_dir |-> FALSE]

InitParse ==
    /\ project_type = "python"
    /\ openai_client = TRUE
    /\ fs = BaseDir
    /\ pc = "parse"
    /\ ret = NoReturn
    /\ loc = NoLocals
    /\ fixed = FALSE
    /\ arg \in Concats(MaxSegs)
    /\ out = <<>>
    /\ hist = NoHistory(fs)

\* self._parse_ai_fixes(ai_analysis)
Parse ==
    /\ pc = "parse"
    /\ out' = parse_ai_fixes(arg)
    /\ pc' = "parsed"
    /\ UNCHANGED <<project_type, openai_client, fs, ret, loc, fixed, arg, hist>>

NextParse == Parse

SpecParse == InitParse /\ [][NextParse]_vars

-----------------------------------------------------------------------------
(* _fix_whitespace alone, applied again and again to one file *)

WhitespaceAlphabet == {"a", " ", "\t", "\n"}

InitWs ==
    /\ project_type = "python"
    /\ openai_client = FALSE
    /\ fs \in {[BaseDir EXCEPT !.tree["a.py"] = File(c, TRUE, TRUE)] :
                  c \in Strings(WhitespaceAlphabet, MaxLen)}
    /\ pc = "whitespace"
    /\ ret = NoReturn
    /\ loc = NoLocals
    /\ fixed = FALSE
    /\ arg = ""
    /\ out = <<>>
    /\ hist = NoHistory(fs)

\* self._fix_whitespace('a.py')
FixWhitespace ==
    /\ pc = "whitespace"
    /\ hist.calls < MaxCalls
    /\ \E w \in {fix_whitespace(fs, "a.py")} :
          /\ fs' = w.fs
          /\ hist' = [hist EXCEPT !.calls = @ + 1,
                                  !.first = IF hist.calls = 0 THEN w.fs.tree["a.py"].text ELSE @]
    /\ UNCHANGED <<project_type, openai_client, pc, ret, loc, fixed, arg, out>>

NextWs == FixWhitespace

SpecWs == InitWs /\ [][NextWs]_vars

-----------------------------------------------------------------------------
(* _fix_imports alone, resolving the same transcript again and again *)

ImportTranscripts ==
    {"ModuleNotFoundError: No module named 'requests.api'",
     "ImportError: No module named \"yaml\"\nNo module named 'requests'",
     "Error: Cannot find module 'lodash'",
     "cannot find module \"express\"\nError: Cannot find module 'lodash'",
     "SyntaxError: invalid syntax"}

ImportRequirements ==
    {NoRequirements} \cup
    {[exists |-> TRUE, text |-> t] :
        t \in {"", "flask\n", "requests==2.0\n", "requests\n", "requests>=2.0\nflask", "yaml\n\n"}}

ImportPackageJsons ==
    PackageJsons \cup
    {[exists |-> TRUE, data |-> [name |-> "app", dependencies |-> [express |-> "^4.0.0"]]]}

InitImports ==
    /\ project_type \in {"python", "nodejs"}
    /\ openai_client = FALSE
    /\ fs \in {[BaseDir EXCEPT !.build_log = File(t, TRUE, TRUE),
                               !.requirements = r, !.package_json = p] :
                  t \in ImportTranscripts,
                  r \in IF project_type = "python" THEN ImportRequirements ELSE {NoRequirements},
                  p \in IF project_type = "nodejs" THEN ImportPackageJsons ELSE {NoManifest}}
    /\ pc = "imports"
    /\ ret = NoReturn
    /\ loc = NoLocals
    /\ fixed = FALSE
    /\ arg = ""
    /\ out = <<>>
    /\ hist = NoHistory(fs)

\* self._fix_imports(file_path)
FixImports ==
    /\ pc = "imports"
    /\ hist.calls < MaxCalls
    /\ \E pkg \in PkgOutcomes, order \in module_orders(fs) :
       \E m \in {fix_imports(fs, project_type, pkg, order)} :
          /\ fs' = m.fs
          /\ pc' = IF m.raised THEN "raised" ELSE "imports"
          /\ hist' = [hist EXCEPT !.calls = @ + 1,
                                  !.cause = IF m.raised THEN "imports" ELSE @]
    /\ UNCHANGED <<project_type, openai_client, ret, loc, fixed, arg, out>>

NextImports == FixImports

SpecImports == InitImports /\ [][NextImports]_vars

-----------------------------------------------------------------------------
(* Properties of classification, checked under SpecClassify *)

\* whether the pattern path can run to its end on directory d
pattern_path_runs(d) == d.build_log.readable /\ d.error_type_txt.writable

\* what the pattern path returns for the transcript of d
pattern_return(d, ptype) ==
    [error_type |-> pattern_kind(d.build_log.text, ptype), fixes |-> <<>>]

C2_NoTranscriptIsMajor ==
    (pc # "start" /\ ~ hist.fs0.build_log.exists)
        => /\ pc = "analyzed"
           /\ ret = [error_type |-> "major", fixes |-> <<>>]
           /\ hist.remote_calls = 0
           /\ hist.pattern_runs = 0

\* analyze_error has returned for a directory without transcript, adapter configured
C2_Witness ==
    /\ pc = "analyzed"
    /\ ~ hist.fs0.build_log.exists
    /\ openai_client
    /\ ret.error_type = "major"

\* C10, as stated: after every completed classification the record holds the kind
\* and suggestions this run returned and the flag file holds the returned kind.
C10_ArtifactsAreThisRuns ==
    pc = "analyzed"
        => /\ fs.ai_fixes.exists
           /\ fs.ai_fixes.data.error_type = ret.error_type
           /\ fs.ai_fixes.data.fixes = ret.fixes
           /\ fs.error_type_txt.exists
           /\ fs.error_type_txt.text = ret.error_type

-----------------------------------------------------------------------------
(* Properties of _parse_ai_fixes, checked under SpecParse *)

\* C3: when the numbers of file, line and fix matches differ the result is empty;
\* when all three are n the result has n suggestions, the i-th one pairing the i-th
\* file, the i-th line and the i-th fix body.
C3_AlignedOrEmpty ==
    pc = "parsed"
        => LET files == files_of(arg)
               lines == lines_of(arg)
               fixes_text == fixes_text_of(arg)
           IN  IF Len(files) = Len(lines) /\ Len(lines) = Len(fixes_text)
               THEN /\ Len(out) = Len(files)
                    /\ \A i \in 1..Len(out) :
                          /\ out[i].file = files[i]
                          /\ out[i].line = lines[i]
                          /\ out[i].fix = fixes_text[i]
               ELSE out = <<>>

\* a narrative with two of each has been parsed into two suggestions
C3_Witness ==
    /\ pc = "parsed"
    /\ Len(out) = 2
    /\ out[1].file # out[2].file

-----------------------------------------------------------------------------
(* Properties of _fix_whitespace, checked under SpecWs *)

\* C5, as stated: applying the normalization twice gives the bytes that applying
\* it once gives.
C5_Idempotent ==
    hist.calls >= 2 => fs.tree["a.py"].text = hist.first

\* the lines of text end in no whitespace
NoTrailingWhitespace(text) ==
    \A k \in 1..Len(splitlines(text)) :
        LET l == splitlines(text)[k] IN l = "" \/ Ch(l, Len(l)) \notin Whitespace

\* C6, as stated: after one application the content has no tab, no line ends in
\* whitespace, and the content ends with exactly one newline.
C6_NormalForm ==
    hist.calls >= 1
        => /\ ~ Contains(hist.first, "\t")
           /\ NoTrailingWhitespace(hist.first)
           /\ endswith(hist.first, "\n")
           /\ ~ endswith(hist.first, "\n\n")

-----------------------------------------------------------------------------
(* Properties of _fix_imports, checked under SpecImports *)

\* the modules the transcript of d reports missing, as the manifest names them
missing_modules(d, ptype) ==
    IF ptype = "python" THEN top_level_set(python_missing(d.build_log.text))
    ELSE {node_missing(d.build_log.text)[k] : k \in 1..Len(node_missing(d.build_log.text))}

\* the entries of a requirements list that cover module: exact or pinned with ==
covering_entries(reqs, module) ==
    {k \in 1..Len(reqs) : reqs[k] = module \/ startswith(reqs[k], module \o "==")}

\* requirements list now keeps the entries of before in their places, and what it
\* adds is at most one bare entry for each missing module that before did not cover
requirements_grow(before, now, modules) ==
    /\ Len(before) <= Len(now)
    /\ SubSeq(now, 1, Len(before)) = before
    /\ \A k \in (Len(before) + 1)..Len(now) : now[k] \in modules
    /\ \A m \in modules :
          /\ Cardinality({k \in (Len(before) + 1)..Len(now) : now[k] = m}) <= 1
          /\ covering_entries(before, m) # {} =>
                 covering_entries(now, m) = covering_entries(before, m)

\* the dependencies map of a package.json value
dependencies_of(data) ==
    IF HasKey(data, "dependencies") THEN data["dependencies"] ELSE EmptyObject

\* package.json now keeps every key of before, every dependency of before with its
\* version, and what it adds is one dependency for a missing module
manifest_grows(before, now, modules) ==
    /\ DOMAIN before \subseteq DOMAIN now
    /\ DOMAIN now \subseteq DOMAIN before \cup {"dependencies"}
    /\ \A k \in DOMAIN before \ {"dependencies"} : now[k] = before[k]
    /\ \A m \in DOMAIN dependencies_of(before) :
          /\ m \in DOMAIN dependencies_of(now)
          /\ dependencies_of(now)[m] = dependencies_of(before)[m]
    /\ DOMAIN dependencies_of(now) \ DOMAIN dependencies_of(before) \subseteq modules

\* C7: however often the same transcript is resolved, no entry the manifest had is
\* removed or changed, and at most one entry is added for a missing module: none
\* when the requirements list already had an exact or ==-pinned entry for it, none
\* when the dependencies map already had the module.
C7_ManifestMonotonic ==
    /\ hist.fs0.requirements.exists = fs.requirements.exists
    /\ hist.fs0.package_json.exists = fs.package_json.exists
    /\ fs.requirements.exists =>
          requirements_grow(splitlines(hist.fs0.requirements.text),
                            splitlines(fs.requirements.text),
                            missing_modules(hist.fs0, project_type))
    /\ fs.package_json.exists =>
          manifest_grows(hist.fs0.package_json.data, fs.package_json.data,
                         missing_modules(hist.fs0, project_type))

\* the same transcript was resolved twice or more and the requirements list has
\* gained entries
C7_Witness ==
    /\ hist.calls >= 2
    /\ pc = "imports"
    /\ fs.requirements.exists
    /\ Len(splitlines(fs.requirements.text)) > Len(splitlines(hist.fs0.requirements.text))

-----------------------------------------------------------------------------
(* Properties of remediation, checked under Spec *)

\* the step is one turn of the loop over the suggestions
TargetedFixStep == pc = "targeted" /\ hist'.attempted = hist.attempted + 1

\* C4: a targeted fix changes a file only when its line is one of the lines the
\* file has when the fix is applied; a suggestion whose line is out of range leaves
\* the directory as it is, is not counted, and the loop goes on to the next one.
C4_OnlyInRange ==
    [][TargetedFixStep =>
          LET fix == loc.fixes[loc.i]
          IN  /\ fs' # fs => in_range(fs, fix)
              /\ loc'.applied_fixes > loc.applied_fixes => in_range(fs, fix)
              /\ ~ in_range(fs, fix) =>
                    /\ fs' = fs
                    /\ loc'.applied_fixes = loc.applied_fixes
                    /\ pc' = "targeted"
                    /\ loc'.i = loc.i + 1]_vars

\* a suggestion past the end of its file was skipped and a later one was applied
C4_Witness ==
    /\ pc = "targeted"
    /\ hist.skipped > 0
    /\ loc.applied_fixes > 0
    /\ hist.attempted = Len(loc.fixes)

\* C8, as stated: fix_errors returns true exactly when a fix of some kind was
\* applied: a line replaced, a file changed by normalization, a manifest updated,
\* or scaffolding created.
C8_FixedIffApplied ==
    (pc = "done" /\ ret.error_type = "minor") => (fixed <=> hist.real_fixes > 0)

\* C9: no failure on a single file leaves the remediation as an exception; when
\* such failures were caught and remediation ends, every suggestion was tried,
\* every project file was visited and the scaffolding step ran.
C9_FileFailuresAreLocal ==
    /\ pc = "raised" => hist.cause # "file"
    /\ (pc = "done" /\ hist.caught > 0)
          => /\ hist.attempted = Len(loc.fixes)
             /\ hist.visited = Len(loc.files)
             /\ hist.scaffolded

\* remediation ended after failures on the target of a suggestion and on a file
\* to normalize were both caught
C9_Witness ==
    /\ pc = "done"
    /\ hist.caught >= 2
    /\ hist.attempted >= 1
    /\ hist.visited >= 1
    /\ hist.scaffolded

-----------------------------------------------------------------------------
(* Properties of main, checked under Spec *)

\* the remote service answered and its answer was taken
remote_answered == hist.remote_calls = 1 /\ ~ hist.remote_failed

\* C11: suggestions are returned only with kind minor and only by the remote path;
\* when the kind is major there are no suggestions, fix_errors does not return
\* true, and no source file, manifest or scaffolding is created or modified.
C11_MajorIsLeftAlone ==
    /\ ret.fixes # <<>> => (ret.error_type = "minor" /\ remote_answered)
    /\ ret.error_type = "major" =>
          /\ ret.fixes = <<>>
          /\ fixed = FALSE
          /\ hist.attempted = 0 /\ hist.visited = 0 /\ ~ hist.scaffolded
          /\ fs.tree = hist.fs0.tree
          /\ fs.package_json = hist.fs0.package_json
          /\ fs.requirements = hist.fs0.requirements
          /\ fs.tests_dir = hist.fs0.tests_dir

\* main ended on a major answer of the remote service whose narrative had tagged
\* fields
C11_Witness ==
    /\ pc = "done"
    /\ ret.error_type = "major"
    /\ remote_answered
    /\ files_of(fs.ai_fixes.data.analysis) # <<>>

-----------------------------------------------------------------------------
(* Properties of the remote path, checked under SpecClassify *)

\* C12, as stated: the remote path answers minor exactly when its narrative holds
\* the token MINOR in some letter case.
C12_TokenInAnyCase ==
    (pc = "analyzed" /\ remote_answered)
        => ret.error_type = IF Contains(lower(fs.ai_fixes.data.analysis), "minor")
                            THEN "minor" ELSE "major"

-----------------------------------------------------------------------------
(* _analyze_traditional alone, over transcripts put together from fragments *)

Fragments ==
    {"ModuleNotFoundError", "modulenotfounderror:", "IndentationError",
     "npm ERR! missing script", "Cannot find module", "PyLint ", "Segmentation fault",
     " at line 1\n"}

\* the concatenations of at most n fragments
RECURSIVE TranscriptsOf(_)
TranscriptsOf(n) ==
    IF n = 0 THEN {""}
    ELSE LET shorter == TranscriptsOf(n - 1)
         IN  shorter \cup {s \o g : s \in shorter, g \in Fragments}

\* values of PROJECT_TYPE: detected kinds, the 'node' the checks look for, unset
ProjectKinds == {"python", "nodejs", "node", "java", ""}

InitPattern ==
    /\ project_type \in ProjectKinds
    /\ openai_client = FALSE
    /\ fs \in {[BaseDir EXCEPT !.build_log = File(t, TRUE, TRUE)] : t \in TranscriptsOf(MaxParts)}
    /\ pc = "pattern"
    /\ ret = NoReturn
    /\ loc = NoLocals
    /\ fixed = FALSE
    /\ arg = ""
    /\ out = <<>>
    /\ hist = NoHistory(fs)

\* self._analyze_traditional()
AnalyzeTraditional ==
    /\ pc = "pattern"
    /\ \E r \in {analyze_traditional(fs, project_type)} :
          /\ fs' = r.fs
          /\ ret' = [error_type |-> r.error_type, fixes |-> r.fixes]
          /\ pc' = IF r.error_type = "raised" THEN "raised" ELSE "analyzed"
          /\ hist' = [hist EXCEPT !.pattern_runs = @ + 1]
    /\ UNCHANGED <<project_type, openai_client, loc, fixed, arg, out>>

NextPattern == AnalyzeTraditional

SpecPattern == InitPattern /\ [][NextPattern]_vars

-----------------------------------------------------------------------------
(* Properties of the pattern path, checked under SpecPattern *)

\* the eight triggers of the pattern table
Triggers ==
    {"indentation contains tabs", "trailing whitespace", "cannot find module",
     "ModuleNotFoundError", "SyntaxError", "Missing semicolon", "ESLint", "pylint"}

\* text holds a trigger of the table, in any letter case
holds_trigger(text) == \E t \in Triggers : Contains(lower(text), lower(t))

\* a context-specific override applies to text for project kind ptype
override_applies(text, ptype) ==
    \/ ptype \in {"nodejs", "node"} /\ Contains(text, "npm ERR! missing script")
    \/ ptype = "python" /\ Contains(text, "IndentationError")

\* C13: for a transcript that holds no trigger of the table and to which no
\* override applies, the pattern path returns major, whatever the project kind.
C13_DefaultIsMajor ==
    (pc = "analyzed"
        /\ ~ holds_trigger(hist.fs0.build_log.text)
        /\ ~ override_applies(hist.fs0.build_log.text, project_type))
        => ret = [error_type |-> "major", fixes |-> <<>>]

\* the pattern path answered for a transcript without trigger that holds an override
\* signature of another project kind
C13_Witness ==
    /\ pc = "analyzed"
    /\ project_type = "java"
    /\ Contains(hist.fs0.build_log.text, "IndentationError")
    /\ ~ holds_trigger(hist.fs0.build_log.text)
    /\ ret.error_type = "major"

\* C14: for a transcript that holds ModuleNotFoundError the pattern path returns
\* minor, whatever the project kind, also when an override signature is there.
C14_ModuleNotFoundIsMinor ==
    (pc = "analyzed" /\ Contains(hist.fs0.build_log.text, "ModuleNotFoundError"))
        => ret = [error_type |-> "minor", fixes |-> <<>>]

\* the pattern path answered for a transcript with ModuleNotFoundError and with the
\* signature of an override, the project kind unset
C14_Witness ==
    /\ pc = "analyzed"
    /\ project_type = ""
    /\ Contains(hist.fs0.build_log.text, "ModuleNotFoundError")
    /\ Contains(hist.fs0.build_log.text, "npm ERR! missing script")
    /\ ret.error_type = "minor"

\* C15, as stated: with project kind nodejs a transcript holding the npm
\* missing-script signature is minor, and with project kind python a transcript
\* holding IndentationError is minor.
C15_OverridesForceMinor ==
    pc = "analyzed"
        => /\ (project_type = "nodejs"
                 /\ Contains(hist.fs0.build_log.text, "npm ERR! missing script"))
                 => ret.error_type = "minor"
           /\ (project_type = "python"
                 /\ Contains(hist.fs0.build_log.text, "IndentationError"))
                 => ret.error_type = "minor"

-----------------------------------------------------------------------------
(* Properties of the end-to-end scenarios, checked under Spec *)

\* C16, as stated: with project kind nodejs, a transcript holding "cannot find
\* module 'lodash'" and a manifest, the pattern path answers minor and once
\* remediation has ended the dependencies map holds lodash: with its earlier
\* version if it had one, with '*' if not, whatever the source tree holds.
C16_LodashIsDeclared ==
    (pc = "done"
        /\ project_type = "nodejs"
        /\ hist.pattern_runs = 1
        /\ Contains(lower(hist.fs0.build_log.text), "cannot find module 'lodash'")
        /\ hist.fs0.package_json.exists)
        => /\ ret.error_type = "minor"
           /\ HasKey(dependencies_of(fs.package_json.data), "lodash")
           /\ dependencies_of(fs.package_json.data)["lodash"] =
                 IF HasKey(dependencies_of(hist.fs0.package_json.data), "lodash")
                 THEN dependencies_of(hist.fs0.package_json.data)["lodash"]
                 ELSE "*"

\* C17, as stated: with project kind python, no remote analysis and the transcript
\* "IndentationError: unexpected indent", the kind is minor and once remediation has
\* ended tests/__init__.py exists, and the scaffolding text has not been written
\* over an initializer that was there before.
C17_InitializerExists ==
    (pc = "done"
        /\ project_type = "python"
        /\ ~ openai_client
        /\ hist.fs0.build_log.exists
        /\ hist.fs0.build_log.text = "IndentationError: unexpected indent")
        => /\ ret.error_type = "minor"
           /\ fs.tree["tests/__init__.py"].exists
           /\ hist.fs0.tree["tests/__init__.py"].exists
                 => fs.tree["tests/__init__.py"].text # "# Test initialization\n"

\* C18, as stated: no failure of the package manager ends the run: no exception
\* leaves _fix_imports.  (Under Spec the transcript is readable, so what leaves
\* _fix_imports is what subprocess.run raised.)
C18_PackageManagerNeverFatal ==
    ~ (pc = "raised" /\ hist.cause = "imports")

\* the step is a turn of the loop over the suggestions that applied its suggestion
AppliedFixStep == TargetedFixStep /\ loc'.applied_fixes = loc.applied_fixes + 1

\* C19, as stated: applying a fix to line k of a file leaves the file with as many
\* lines as it had, each of them but line k with its content in its place.
C19_OnlyLineK ==
    [][AppliedFixStep =>
          LET fix == loc.fixes[loc.i]
              before == readlines(fs.tree[fix.file].text)
              after == readlines(fs'.tree[fix.file].text)
          IN  /\ Len(after) = Len(before)
              /\ \A j \in 1..Len(before) : j # fix.line => after[j] = before[j]]_vars

\* C20, as stated: for project kind nodejs with a manifest, once remediation has
\* ended the manifest declares a build script: the one it declared before if any,
\* and every field but scripts and dependencies is as it was.
C20_BuildScriptDeclared ==
    (pc = "done"
        /\ project_type = "nodejs"
        /\ ret.error_type = "minor"
        /\ hist.fs0.package_json.exists)
        => LET before == hist.fs0.package_json.data
               now == fs.package_json.data
           IN  /\ HasKey(now, "scripts")
               /\ HasKey(now["scripts"], "build")
               /\ (HasKey(before, "scripts") /\ HasKey(before["scripts"], "build"))
                     => now["scripts"]["build"] = before["scripts"]["build"]
               /\ \A k \in DOMAIN before \ {"scripts", "dependencies"} :
                     HasKey(now, k) /\ now[k] = before[k]

-----------------------------------------------------------------------------
(* Properties of the suggestions counted as applied, checked under Spec *)

\* line fix.line of file fix.file of d is the replacement text and a terminator
on_disk(d, fix) ==
    /\ d.tree[fix.file].exists
    /\ fix.line <= Len(readlines(d.tree[fix.file].text))
    /\ readlines(d.tree[fix.file].text)[fix.line] = fix.fix \o "\n"

\* C21, as stated: when remediation has ended, every suggestion counted as applied
\* is on disk: its line of its file is its replacement text and a line terminator.
C21_AppliedFixesAreOnDisk ==
    pc = "done" => \A k \in 1..Len(hist.applied) : on_disk(fs, hist.applied[k])

\* C23, as stated: when the classification came from the pattern path, which
\* returns no suggestions, no targeted line replacement is performed.
C23_OnlyThisRunsSuggestions ==
    hist.pattern_runs = 1 => hist.applied = <<>>

-----------------------------------------------------------------------------
(* main over every state of the transcript: missing, unreadable or readable *)

InitRun ==
    /\ project_type \in {"python", "nodejs"}
    /\ openai_client \in BOOLEAN
    /\ fs \in {d \in (IF project_type = "python"
                      THEN PythonDirs(LogsWithPermissions, Leftovers)
                      ELSE NodeDirs(LogsWithPermissions, Leftovers)) :
                  /\ d.tree["a.py"] \in {NoFile, File("x = 1\ny = 1\n", TRUE, TRUE)}
                  /\ d.tree["a.py"].exists <=> project_type = "python"
                  /\ d.tree["a.js"] \in {NoFile, File("let a;\t\n", TRUE, TRUE)}
                  /\ d.tree["a.js"].exists <=> project_type = "nodejs"
                  /\ ~ d.tree["b.py"].exists
                  /\ ~ d.tree["tests/__init__.py"].exists
                  /\ ~ d.tests_dir
                  /\ d.requirements.exists <=> project_type = "python"
                  /\ d.requirements.text \in {"", "flask\n"}
                  /\ d.package_json.exists <=> project_type = "nodejs"
                  /\ ~ HasKey(d.package_json.data, "scripts")}
    /\ pc = "start"
    /\ ret = NoReturn
    /\ loc = NoLocals
    /\ fixed = FALSE
    /\ arg = ""
    /\ out = <<>>
    /\ hist = NoHistory(fs)

SpecRun == InitRun /\ [][Next]_vars

\* C22, as stated: no exception ends a run of main before its end; at its end a
\* kind minor or major has been returned (and for minor _apply_fixes has returned
\* its count); the remote service is called at most once; and no exception leaves
\* analyze_error once the pattern path has been entered.
C22_RunsToItsEnd ==
    /\ pc # "raised"
    /\ pc = "done" => ret.error_type \in {"minor", "major"}
    /\ pc = "done" /\ ret.error_type = "minor" => hist.scaffolded
    /\ hist.remote_calls <= 1
    /\ ~ (hist.pattern_runs = 1 /\ pc = "raised" /\ hist.cause = "analyze")

-----------------------------------------------------------------------------
(* The pipeline: build_project, then on its failure the classifier *)

\* the working directory with the files build_project writes: build.log,
\* build_errors.txt, npm_install.log, pip_install.log
PipelineDir(d) ==
    [build_dot_log |-> NoFile, build_errors_txt |-> NoFile,
     npm_install_log |-> NoFile, pip_install_log |-> NoFile] @@ d

\* what a command run by subprocess.run does: it exits with status 0 or not
\* (check=True raises CalledProcessError), having written output
BuildResults ==
    {[ok |-> TRUE, output |-> "built\n"],
     [ok |-> FALSE, output |-> "SyntaxError: invalid syntax"],
     [ok |-> FALSE, output |-> "npm ERR! missing script: build"]}

\* run_command(command, shell=True, output_file=file)
run_command(d, file, result) ==
    [success |-> result.ok,
     output |-> IF result.ok THEN "" ELSE result.output,
     fs |-> [d EXCEPT ![file] = Written(@, result.output)]]

\* the keys of fallback_commands
FallbackKinds ==
    {"nodejs", "python", "maven", "gradle", "dotnet", "go", "ruby", "rust", "php",
     "scala", "docker", "android", "ios", "flutter", "c", "cpp"}

\* the build_errors.txt written before sys.exit(1)
save_error(d, error_content) ==
    [exit |-> 1, fs |-> [d EXCEPT !.build_errors_txt = Written(@, error_content)]]

\* the branch of build_project for a fallback command that failed: dependencies are
\* installed and the build tried again for nodejs without node_modules and for
\* python with requirements.txt
after_failed_fallback(r1, ptype, install, retry) ==
    IF ptype = "nodejs" /\ ~ r1.fs.tree["node_modules/m.js"].exists
    THEN run_command(run_command(r1.fs, "npm_install_log", install).fs, "build_dot_log", retry)
    ELSE IF ptype = "python" /\ r1.fs.requirements.exists
    THEN run_command(run_command(r1.fs, "pip_install_log", install).fs, "build_dot_log", retry)
    ELSE r1

\* the end of either branch: build_errors.txt and exit 1 on failure
build_outcome(r) ==
    IF ~ r.success THEN save_error(r.fs, r.output) ELSE [exit |-> 0, fs |-> r.fs]

\* build_project; env_ok: project-type.env could be read, has_command: it gives a
\* BUILD_COMMAND; exit is the status the process ends with
build_project(d, env_ok, ptype, has_command, first, install, retry) ==
    IF ~ env_ok THEN [exit |-> 1, fs |-> d]
    ELSE IF has_command THEN build_outcome(run_command(d, "build_dot_log", first))
    ELSE IF ptype \in FallbackKinds
    THEN Bind(run_command(d, "build_dot_log", first), LAMBDA r1 :
             IF r1.success THEN [exit |-> 0, fs |-> r1.fs]
             ELSE build_outcome(after_failed_fallback(r1, ptype, install, retry)))
    ELSE save_error(d, "Unknown project type: " \o ptype \o "\nNo build command available.")

InitPipeline ==
    /\ project_type \in {"python", "nodejs", "unknown"}
    /\ openai_client \in BOOLEAN
    /\ fs \in {PipelineDir([BaseDir EXCEPT !.build_log = l, !.requirements = r,
                                           !.tree["node_modules/m.js"] = m]) :
                  l \in {NoFile, File("Segmentation fault", TRUE, TRUE)},
                  r \in {NoRequirements, [exists |-> TRUE, text |-> "flask\n"]},
                  m \in {NoFile, File("m \n", TRUE, TRUE)}}
    /\ pc = "build"
    /\ ret = NoReturn
    /\ loc = NoLocals
    /\ fixed = FALSE
    /\ arg = ""
    /\ out = <<>>
    /\ hist = NoHistory(fs)

\* the build step; when it exits with 1 the pipeline runs the classifier
BuildProject ==
    /\ pc = "build"
    /\ \E env_ok \in BOOLEAN, has_command \in BOOLEAN :
       \E first \in BuildResults, install \in BuildResults, retry \in BuildResults :
       \E b \in {build_project(fs, env_ok, project_type, has_command, first, install, retry)} :
           /\ fs' = b.fs
           /\ pc' = IF b.exit = 0 THEN "built" ELSE "start"
    /\ UNCHANGED <<project_type, openai_client, ret, loc, fixed, arg, out, hist>>

NextPipeline ==
    \/ BuildProject
    \/ Analyze

SpecPipeline == InitPipeline /\ [][NextPipeline]_vars

\* C24, as stated: when the classifier has run after a build that failed and saved
\* its error output, the classifier found a transcript, its content is what the
\* build saved, and the kind comes from the remote or the pattern path, not from
\* the no-transcript default.
C24_ClassifierReadsBuildOutput ==
    (pc = "analyzed" /\ fs.build_errors_txt.exists)
        => /\ fs.build_log.exists
           /\ fs.build_log.text = fs.build_errors_txt.text
           /\ hist.remote_calls + hist.pattern_runs >= 1

=============================================================================
